---- MODULE Spec2Model ----
(***************************************************************************)
(* A model of the TFA points scraper (tfa_scraper.py) and of the admin     *)
(* panel step of app.py that calls it.                                     *)
(*                                                                         *)
(* Text is modelled as a sequence of one-character strings, so that the    *)
(* substring tests, strip(), split("|") and the points regular expression  *)
(* are computed rather than assumed.  A parsed page (a soup) is a record   *)
(*   [h2 |-> <<>> or <<text>>, title |-> <<>> or <<text>>, body |-> nodes] *)
(* whose body lists the headings and tables of the page in document order. *)
(* A table is a sequence of rows, a row a sequence of cells [tag, text].   *)
(***************************************************************************)
EXTENDS Integers, Sequences, FiniteSets, TLC

\* ------------------------------------------------------------------ bounds
MaxId == 3          \* result identifiers that the remote site scripts: 1..MaxId
MaxLimit == 2       \* empty-streak thresholds tried: 1..MaxLimit
MaxNodes == 3       \* headings and tables in a page body
MaxTextLen == 3     \* characters in a generated cell text or title
MaxRows == 3        \* rows in a generated table

\* empty_streak_limit's default value
DefaultLimit == 12

\* ------------------------------------------------------------------- text
Digit == {"0", "1", "2", "3", "4", "5", "6", "7", "8", "9"}

DigitVal(c) ==
    CASE c = "0" -> 0 [] c = "1" -> 1 [] c = "2" -> 2 [] c = "3" -> 3
      [] c = "4" -> 4 [] c = "5" -> 5 [] c = "6" -> 6 [] c = "7" -> 7
      [] c = "8" -> 8 [] c = "9" -> 9

\* str.lower() on the letters the model's texts use
LowerChar(c) ==
    CASE c = "T" -> "t" [] c = "F" -> "f" [] c = "A" -> "a" [] c = "P" -> "p"
      [] c = "S" -> "s" [] c = "N" -> "n" [] c = "Q" -> "q" [] c = "R" -> "r"
      [] c = "E" -> "e" [] c = "L" -> "l" [] c = "D" -> "d" [] c = "C" -> "c"
      [] c = "X" -> "x" [] c = "U" -> "u"
      [] OTHER -> c

Lower(s) == [i \in 1..Len(s) |-> LowerChar(s[i])]

\* sub in s
Contains(s, sub) ==
    \E i \in 0..(Len(s) - Len(sub)) : SubSeq(s, i + 1, i + Len(sub)) = sub

RECURSIVE LStrip(_)
LStrip(s) == IF s # <<>> /\ Head(s) = " " THEN LStrip(Tail(s)) ELSE s

RECURSIVE RStrip(_)
RStrip(s) ==
    IF s # <<>> /\ s[Len(s)] = " " THEN RStrip(SubSeq(s, 1, Len(s) - 1)) ELSE s

\* str.strip()
Strip(s) == RStrip(LStrip(s))

\* s.split(sep)[0]
RECURSIVE SplitFirst(_, _)
SplitFirst(s, sep) ==
    IF s = <<>> \/ Head(s) = sep THEN <<>>
    ELSE <<Head(s)>> \o SplitFirst(Tail(s), sep)

\* s.replace(c, "")
RECURSIVE Remove(_, _)
Remove(s, c) ==
    IF s = <<>> THEN <<>>
    ELSE IF Head(s) = c THEN Remove(Tail(s), c)
    ELSE <<Head(s)>> \o Remove(Tail(s), c)

\* " ".join(texts)
RECURSIVE Join(_)
Join(texts) ==
    IF texts = <<>> THEN <<>>
    ELSE IF Len(texts) = 1 THEN texts[1]
    ELSE texts[1] \o <<" ">> \o Join(Tail(texts))

\* tag.get_text(" ", strip=True) of an element holding one string
get_text(text) == Strip(text)

\* ------------------------------------------------- the points expression
\* the number of digits of s from position p on
RECURSIVE DigitRun(_, _)
DigitRun(s, p) ==
    IF p <= Len(s) /\ s[p] \in Digit THEN 1 + DigitRun(s, p + 1) ELSE 0

\* \d*\.?\d+ from position p with \d* taking k digits, then fewer (the
\* expression's backtracking order); the position after the match, 0 if none
RECURSIVE BodyFrom(_, _, _)
BodyFrom(s, p, k) ==
    LET q == p + k
        withDot == q <= Len(s) /\ s[q] = "." /\ DigitRun(s, q + 1) >= 1
        noDot == DigitRun(s, q) >= 1
    IN  IF withDot THEN q + 1 + DigitRun(s, q + 1)
        ELSE IF noDot THEN q + DigitRun(s, q)
        ELSE IF k = 0 THEN 0
        ELSE BodyFrom(s, p, k - 1)

Body(s, p) == BodyFrom(s, p, DigitRun(s, p))

\* [-+]?\d*\.?\d+ matched at position i: the position after the match, 0 if none
MatchAt(s, i) ==
    IF i <= Len(s) /\ s[i] \in {"-", "+"} /\ Body(s, i + 1) # 0
    THEN Body(s, i + 1)
    ELSE Body(s, i)

\* re.search: the leftmost match, <<>> when there is none, else <<token>>
RECURSIVE SearchFrom(_, _)
SearchFrom(s, i) ==
    IF i > Len(s) THEN <<>>
    ELSE IF MatchAt(s, i) # 0 THEN <<SubSeq(s, i, MatchAt(s, i) - 1)>>
    ELSE SearchFrom(s, i + 1)

re_search_points(s) == SearchFrom(s, 1)

RECURSIVE DigitsToNat(_)
DigitsToNat(ds) ==
    IF ds = <<>> THEN 0
    ELSE 10 * DigitsToNat(SubSeq(ds, 1, Len(ds) - 1)) + DigitVal(ds[Len(ds)])

\* mant * 10^-exp with no trailing zero in the fraction
RECURSIVE Normal(_, _)
Normal(mant, exp) ==
    IF exp > 0 /\ mant % 10 = 0 THEN Normal(mant \div 10, exp - 1)
    ELSE [mant |-> mant, exp |-> exp]

\* float(token) of a token of the points expression
float(tok) ==
    LET neg == tok[1] = "-"
        unsigned == IF tok[1] \in {"-", "+"} THEN Tail(tok) ELSE tok
        intpart == SplitFirst(unsigned, ".")
        frac == IF Len(intpart) = Len(unsigned) THEN <<>>
                ELSE SubSeq(unsigned, Len(intpart) + 2, Len(unsigned))
        mag == DigitsToNat(intpart \o frac)
    IN  Normal(IF neg THEN 0 - mag ELSE mag, Len(frac))

\* ------------------------------------------------------------ page parts
TFA == <<"T", "F", "A">>
Qualification == <<"Q", "u", "a", "l", "i", "f", "i", "c", "a", "t", "i", "o", "n">>
UnknownEvent == <<"U", "n", "k", "n", "o", "w", "n", " ", "E", "v", "e", "n", "t">>

Heading(name, children) ==
    [kind |-> "heading", name |-> name, children |-> children, rows |-> <<>>]

Table(rows) ==
    [kind |-> "table", name |-> "table", children |-> <<>>, rows |-> rows]

Cell(tag, text) == [tag |-> tag, text |-> text]

\* tag.string: the tag's only child string, <<>> (None) with no or several children
StringOf(node) ==
    IF Len(node.children) = 1 THEN <<node.children[1]>> ELSE <<>>

\* the smallest member of a set of positions, 0 when it is empty
First(S) == IF S = {} THEN 0 ELSE CHOOSE i \in S : \A j \in S : i <= j

\* tr.find_all("td")
find_all_td(tr) == SelectSeq(tr, LAMBDA c : c.tag = "td")

\* the lambda of find_tfa_table's soup.find: x and ("TFA" in x or "Qualification" in x)
heading_filter(x) ==
    /\ x # <<>>
    /\ x[1] # <<>>
    /\ (Contains(x[1], TFA) \/ Contains(x[1], Qualification))

\* soup.find(["h3", "h4"], string=...): the position of the first such heading, 0 if none
find_heading(soup) ==
    First({i \in 1..Len(soup.body) :
              /\ soup.body[i].kind = "heading"
              /\ soup.body[i].name \in {"h3", "h4"}
              /\ heading_filter(StringOf(soup.body[i]))})

\* heading.find_next("table"): the first table after position i, 0 if none
find_next_table(soup, i) ==
    First({j \in (i + 1)..Len(soup.body) : soup.body[j].kind = "table"})

\* the two tests of the fallback scan on one table
fallback_match(tbl) ==
    /\ tbl.rows # <<>>
    /\ LET header_cells == tbl.rows[1]
           texts == [i \in 1..Len(header_cells) |->
                        Lower(get_text(header_cells[i].text))]
           header_str == Join(texts)
       IN  \/ /\ Contains(header_str, <<"p", "o", "i", "n", "t">>)
              /\ \/ Contains(header_str, <<"p", "l", "a", "c", "e">>)
                 \/ Contains(header_str, <<"p", "l", "a", "c", "e", "d">>)
           \/ /\ Len(texts) >= 3
              /\ \/ Contains(header_str, <<"p", "o", "i", "n", "t">>)
                 \/ Contains(header_str, <<"t", "f", "a">>)

\* for tbl in soup.find_all("table"): the first table the fallback accepts, 0 if none
fallback_scan(soup) ==
    First({j \in 1..Len(soup.body) :
              soup.body[j].kind = "table" /\ fallback_match(soup.body[j])})

\* the position in the body of the table found, 0 for None
find_tfa_table(soup) ==
    LET heading == find_heading(soup)
        tbl == IF heading # 0 THEN find_next_table(soup, heading) ELSE 0
    IN  IF tbl # 0 THEN tbl ELSE fallback_scan(soup)

\* row_record with the cell test off by one (len(tds) < 3): a faulty variant
row_record_min3(tr, event_name) ==
    LET tds == find_all_td(tr)
        pts_str == IF tds # <<>> THEN get_text(tds[1].text) ELSE <<>>
        pts_match == re_search_points(Remove(pts_str, ","))
    IN  IF Len(tds) < 3 THEN <<>>
        ELSE IF pts_match = <<>> THEN <<>>
        ELSE <<[points |-> float(pts_match[1]),
                entry |-> IF Len(tds) >= 3 THEN get_text(tds[3].text) ELSE <<>>,
                school |-> IF Len(tds) >= 4 THEN get_text(tds[4].text) ELSE <<>>,
                qualifying_event |->
                    IF Len(tds) >= 5 THEN get_text(tds[5].text) ELSE <<>>,
                event |-> event_name]>>

\* the body of parse_tfa_rows' loop on one row: <<>> (continue) or <<record>>
row_record(tr, event_name) ==
    LET tds == find_all_td(tr)
        pts_str == IF tds # <<>> THEN get_text(tds[1].text) ELSE <<>>
        pts_match == re_search_points(Remove(pts_str, ","))
    IN  IF Len(tds) < 4 THEN <<>>
        ELSE IF pts_match = <<>> THEN <<>>
        ELSE <<[points |-> float(pts_match[1]),
                entry |-> IF Len(tds) >= 3 THEN get_text(tds[3].text) ELSE <<>>,
                school |-> IF Len(tds) >= 4 THEN get_text(tds[4].text) ELSE <<>>,
                qualifying_event |->
                    IF Len(tds) >= 5 THEN get_text(tds[5].text) ELSE <<>>,
                event |-> event_name]>>

\* for tr in rows[i:]: the records of the rows from position i on (1-based)
RECURSIVE rows_from(_, _, _)
rows_from(rows, i, event_name) ==
    IF i > Len(rows) THEN <<>>
    ELSE row_record(rows[i], event_name) \o rows_from(rows, i + 1, event_name)

\* 1 when the first row has cells (a header row to skip), else 0
start_idx(rows) == IF rows # <<>> /\ rows[1] # <<>> THEN 1 ELSE 0

parse_tfa_rows(table, event_name) ==
    LET rows == table.rows
    IN  IF rows = <<>> THEN <<>>
        ELSE rows_from(rows, start_idx(rows) + 1, event_name)

get_event_name(soup) ==
    IF soup.h2 # <<>> /\ get_text(soup.h2[1]) # <<>> THEN get_text(soup.h2[1])
    ELSE IF soup.title # <<>> /\ soup.title[1] # <<>>
         THEN Strip(SplitFirst(soup.title[1], "|"))
    ELSE UnknownEvent

\* ------------------------------------------------------------ the fetcher
\* What the remote site answers for one URL: exc is "none" and soup the page,
\* or exc is the exception SESSION.get / raise_for_status raises.
Exceptions == {"HTTPError", "Timeout", "ConnectionError"}

NoSoup == [h2 |-> <<>>, title |-> <<>>, body |-> <<>>]

Raises(kind) == [exc |-> kind, soup |-> NoSoup]

Serves(soup) == [exc |-> "none", soup |-> soup]

\* except requests.HTTPError: the exceptions page_has_tfa_points catches
caught(exc) == exc = "HTTPError"

\* [raised, rows, ev]: raised is "none" when the call returns (rows, ev), else
\* the exception that leaves it
page_has_tfa_points(answer) ==
    IF answer.exc # "none"
    THEN IF caught(answer.exc)
         THEN [raised |-> "none", rows |-> <<>>, ev |-> UnknownEvent]
         ELSE [raised |-> answer.exc, rows |-> <<>>, ev |-> <<>>]
    ELSE LET soup == answer.soup
             event_name == get_event_name(soup)
             tbl == find_tfa_table(soup)
         IN  IF tbl = 0
             THEN [raised |-> "none", rows |-> <<>>, ev |-> event_name]
             ELSE [raised |-> "none",
                   rows |-> parse_tfa_rows(soup.body[tbl], event_name),
                   ev |-> event_name]

\* ------------------------------------------------------------------ state
VARIABLES
    index,         \* the remote's answer for the results index URL: [exc, ids]
    remote,        \* the name of the remote's answer for each event_results URL
    limit,         \* empty_streak_limit
    pc,            \* where the admin panel's run is
    run,           \* 1 for the first run of the scan, 2 for the second
    candidates,    \* scrape_tfa_tournament's candidates
    seek_pos,      \* find_true_starting_result_id's position in sorted(candidates)
    start_id,      \* scrape_tfa_tournament's start_id
    rid,           \* scrape_tfa_tournament's rid
    empty_streak,  \* scrape_tfa_tournament's empty_streak
    all_rows,      \* scrape_tfa_tournament's all_rows
    scraped,       \* the admin panel's scraped
    fetches,       \* the URLs this run has fetched, in order
    prev,          \* what the first run fetched and how it ended
    soup,          \* the page handed to the page functions
    page_pc,       \* "input" until the page functions have run, then "parsed"
    event_name,    \* page_has_tfa_points's event_name
    tbl,           \* page_has_tfa_points's tbl
    rows           \* page_has_tfa_points's rows

scanVars == <<index, remote, limit, pc, run, candidates, seek_pos, start_id, rid,
              empty_streak, all_rows, scraped, fetches, prev>>

pageVars == <<soup, page_pc, event_name, tbl, rows>>

vars == <<scanVars, pageVars>>

\* ------------------------------------------------------- the remote site
T(text) == Cell("td", text)

H(text) == Cell("th", text)

HeaderRow ==
    <<H(<<"P", "o", "i", "n", "t", "s">>), H(<<"P", "l", "a", "c", "e">>),
      H(<<"E", "n", "t", "r", "y">>), H(<<"S", "c", "h", "o", "o", "l">>)>>

\* a result page with a TFA Qualification heading and two point rows
PageLD ==
    [h2 |-> <<<<"L", "D">>>>, title |-> <<>>,
     body |-> <<Heading("h3", <<TFA \o <<" ">> \o Qualification>>),
                Table(<<HeaderRow,
                        <<T(<<"1", "2">>), T(<<"1">>), T(<<"A", "n", "n">>),
                          T(<<"K", "H", "S">>), T(<<"L", "D">>)>>,
                        <<T(<<"8">>), T(<<"2">>), T(<<"B", "o">>),
                          T(<<"M", "H", "S">>)>>>>)>>]

\* a result page whose points table is found by its header row alone
PageCX ==
    [h2 |-> <<<<"C", "X">>>>, title |-> <<>>,
     body |-> <<Table(<<HeaderRow,
                        <<T(<<"n", "/", "a">>), T(<<"3">>), T(<<"C", "y">>),
                          T(<<"K", "H", "S">>)>>,
                        <<T(<<"6">>), T(<<"1">>), T(<<"D", "i">>),
                          T(<<"P", "H", "S">>), T(<<"C", "X">>)>>>>)>>]

\* a result page with no table
PageNoTable ==
    [h2 |-> <<<<"E", "v", "e", "n", "t">>>>, title |-> <<>>, body |-> <<>>]

\* the names of the answers the remote can give for a result page: one of
\* the three pages, or an exception of get_soup
Answers == {"PageLD", "PageCX", "PageNoTable"} \cup Exceptions

AnswerOf(name) ==
    CASE name = "PageLD" -> Serves(PageLD)
      [] name = "PageCX" -> Serves(PageCX)
      [] name = "PageNoTable" -> Serves(PageNoTable)
      [] OTHER -> Raises(name)

\* the answer for event_results.mhtml?...&result_id=id
AnswerAt(id) ==
    AnswerOf(IF id \in DOMAIN remote THEN remote[id] ELSE "PageNoTable")

\* the scripted remote of the scan's test: rows at 5, 6 and 9 only
Scripted ==
    [id \in 5..9 |-> IF id \in {5, 6, 9} THEN "PageLD" ELSE "PageNoTable"]

IndexServes(ids) == [exc |-> "none", ids |-> ids]

IndexRaises(kind) == [exc |-> kind, ids |-> {}]

\* --------------------------------------------------------------- sorting
RECURSIVE sorted_set(_)
sorted_set(S) ==
    IF S = {} THEN <<>>
    ELSE LET m == CHOOSE x \in S : \A y \in S : x <= y
         IN  <<m>> \o sorted_set(S \ {m})

RECURSIVE insert(_, _)
insert(xs, x) ==
    IF xs = <<>> THEN <<x>>
    ELSE IF x < Head(xs) THEN <<x>> \o xs
    ELSE <<Head(xs)>> \o insert(Tail(xs), x)

RECURSIVE sorted(_)
sorted(xs) ==
    IF xs = <<>> THEN <<>> ELSE insert(sorted(SubSeq(xs, 1, Len(xs) - 1)), xs[Len(xs)])

\* max in place of min: a faulty variant
max_of(xs) == CHOOSE x \in {xs[i] : i \in 1..Len(xs)} : \A i \in 1..Len(xs) : x >= xs[i]

\* min(candidates)
min(xs) == CHOOSE x \in {xs[i] : i \in 1..Len(xs)} : \A i \in 1..Len(xs) : x <= xs[i]

\* ------------------------------------------------------------------- Init
IdleScan ==
    /\ pc = "idle"
    /\ run = 1
    /\ candidates = <<>>
    /\ seek_pos = 0
    /\ start_id = 0
    /\ rid = 0
    /\ empty_streak = 0
    /\ all_rows = <<>>
    /\ scraped = <<>>
    /\ fetches = <<>>
    /\ prev = [fetches |-> <<>>, pc |-> "idle", scraped |-> <<>>]

IdlePage ==
    /\ soup = NoSoup
    /\ page_pc = "idle"
    /\ event_name = <<>>
    /\ tbl = 0
    /\ rows = <<>>

Init ==
    /\ \/ /\ remote \in [1..MaxId -> Answers]
          /\ index \in {IndexServes(ids) : ids \in SUBSET (1..MaxId)}
                          \cup {IndexRaises(k) : k \in Exceptions}
          /\ limit \in 1..MaxLimit
       \/ /\ remote = Scripted
          /\ index \in {IndexServes(ids) : ids \in SUBSET (5..9) \ {{}}}
          /\ limit = DefaultLimit
    /\ IdleScan
    /\ IdlePage

\* ------------------------------------------------------ the scan's steps
Fetched(url, id, phase) == [url |-> url, id |-> id, phase |-> phase]

\* rows kept from an earlier call (an accumulator that outlives the call): a
\* faulty variant
kept_rows(old) == old

\* all_rows = [] (line 130), given the value the name held before
fresh_rows(old) == <<>>

\* assignment in place of extend: a faulty variant
replaced(acc, new_rows) == new_rows

\* all_rows.extend(rows) (line 138)
extend(acc, new_rows) == acc \o new_rows

\* the loop test with <= in place of <: a faulty variant
keep_scanning_le(streak, lim) == streak <= lim

\* while empty_streak < empty_streak_limit (line 134)
keep_scanning(streak, lim) == streak < lim

\* the test left out: a faulty variant
no_candidates_never(cands) == FALSE

\* if not candidates (line 123)
no_candidates(cands) == cands = <<>>

\* lines 130-133: the scan's state at its start
BeginScan(start) ==
    /\ start_id' = start
    /\ all_rows' = fresh_rows(all_rows)
    /\ rid' = start
    /\ empty_streak' = 0
    /\ pc' = "scanning"

\* Scrape & Append is pressed: scrape_tfa_tournament runs up to the answer of
\* its fetch of the results index
Discover ==
    /\ pc = "idle"
    /\ fetches' = <<Fetched("index", 0, "discover")>>
    /\ IF index.exc # "none"
       THEN /\ pc' = "raised"
            /\ UNCHANGED <<candidates, scraped>>
       ELSE /\ candidates' = sorted_set(index.ids)
            /\ IF no_candidates(candidates')
               THEN pc' = "returned" /\ scraped' = <<>>
               ELSE pc' = "seeking" /\ UNCHANGED scraped
    /\ seek_pos' = 1
    /\ UNCHANGED <<index, remote, limit, run, start_id, rid, empty_streak, all_rows,
                   prev, pageVars>>

\* one turn of find_true_starting_result_id's loop, and lines 127-133 when it ends
SeekProbe ==
    /\ pc = "seeking"
    /\ LET id == sorted(candidates)[seek_pos]
           got == page_has_tfa_points(AnswerAt(id))
       IN  /\ fetches' = Append(fetches, Fetched("event_results", id, "seek"))
           /\ IF got.raised # "none"
              THEN /\ pc' = "raised"
                   /\ UNCHANGED <<seek_pos, start_id, rid, empty_streak, all_rows>>
              ELSE IF got.rows # <<>>
              THEN BeginScan(id) /\ UNCHANGED seek_pos
              ELSE IF seek_pos = Len(candidates)
              THEN BeginScan(min(candidates)) /\ UNCHANGED seek_pos
              ELSE /\ seek_pos' = seek_pos + 1
                   /\ UNCHANGED <<pc, start_id, rid, empty_streak, all_rows>>
    /\ UNCHANGED <<index, remote, limit, run, candidates, scraped, prev, pageVars>>

\* empty_streak += 1 (line 142)
bump(streak) == streak + 1

\* one turn of scrape_tfa_tournament's while loop, and its return when the
\* loop's test then fails
ScanProbe ==
    /\ pc = "scanning"
    /\ keep_scanning(empty_streak, limit)
    /\ LET got == page_has_tfa_points(AnswerAt(rid))
       IN  /\ fetches' = Append(fetches, Fetched("event_results", rid, "scan"))
           /\ IF got.raised # "none"
              THEN /\ pc' = "raised"
                   /\ UNCHANGED <<rid, empty_streak, all_rows, scraped>>
              ELSE /\ IF got.rows # <<>>
                      THEN /\ all_rows' = extend(all_rows, got.rows)
                           /\ empty_streak' = 0
                      ELSE /\ empty_streak' = bump(empty_streak)
                           /\ UNCHANGED all_rows
                   /\ rid' = rid + 1
                   /\ IF keep_scanning(empty_streak', limit)
                      THEN UNCHANGED <<pc, scraped>>
                      ELSE pc' = "returned" /\ scraped' = all_rows'
    /\ UNCHANGED <<index, remote, limit, run, candidates, seek_pos, start_id, prev,
                   pageVars>>

\* the columns the admin panel selects from the scraped records
Columns ==
    {"entry", "school", "qualifying_event", "event", "points", "tournament"}

\* pd.DataFrame(scraped)[[...]] raises KeyError unless every column is a key
\* of some record
columns_present(records) ==
    \A c \in Columns : \E i \in 1..Len(records) : c \in DOMAIN records[i]

\* the admin panel after scrape_tfa_tournament has returned (app.py 127-135)
Caller ==
    /\ pc = "returned"
    /\ IF scraped = <<>> THEN pc' = "warned"
       ELSE IF ~columns_present(scraped) THEN pc' = "keyerror"
       ELSE pc' \in {"appended", "append_failed"}
    /\ UNCHANGED <<index, remote, limit, run, candidates, seek_pos, start_id, rid,
                   empty_streak, all_rows, scraped, fetches, prev, pageVars>>

Terminal == {"raised", "warned", "keyerror", "appended", "append_failed"}

\* the same scan is run a second time against the unchanged remote
Rerun ==
    /\ pc \in Terminal
    /\ run = 1
    /\ run' = 2
    /\ prev' = [fetches |-> fetches, pc |-> pc, scraped |-> scraped]
    /\ pc' = "idle"
    /\ UNCHANGED <<index, remote, limit, candidates, seek_pos, start_id, rid,
                   empty_streak, all_rows, scraped, fetches, pageVars>>

Next == Discover \/ SeekProbe \/ ScanProbe \/ Caller \/ Rerun

Spec == Init /\ [][Next]_vars

\* ------------------------------------------------ what the claims speak of
\* the identifiers probed in one phase of this run, in the order probed
ProbedIn(phase) ==
    LET hits == SelectSeq(fetches, LAMBDA f : f.phase = phase)
    IN  [k \in 1..Len(hits) |-> hits[k].id]

SeekIds == ProbedIn("seek")

ScanIds == ProbedIn("scan")

Last(xs) == xs[Len(xs)]

\* the records the remote's page for id holds (none for a page that fails)
RowsOf(id) == page_has_tfa_points(AnswerAt(id)).rows

HasRows(id) == RowsOf(id) # <<>>

\* the records of each of ids' pages, in the order of ids
RECURSIVE PagesRows(_)
PagesRows(ids) ==
    IF ids = <<>> THEN <<>> ELSE <<RowsOf(Head(ids))>> \o PagesRows(Tail(ids))

RECURSIVE Flatten(_)
Flatten(rs) == IF rs = <<>> THEN <<>> ELSE Head(rs) \o Flatten(Tail(rs))

\* how many pages at the end of rs hold no records
RECURSIVE TrailingEmpties(_)
TrailingEmpties(rs) ==
    IF rs = <<>> \/ Last(rs) # <<>> THEN 0
    ELSE 1 + TrailingEmpties(SubSeq(rs, 1, Len(rs) - 1))

\* the scan of this run has ended by returning
ScanReturned ==
    /\ pc \in {"returned", "warned", "keyerror", "appended", "append_failed"}
    /\ ScanIds # <<>>

IsPrefix(xs, ys) == Len(xs) <= Len(ys) /\ xs = SubSeq(ys, 1, Len(xs))

\* C1: SCANNING probes start, start+1, ... with no gaps and returns at the
\* probe that makes the run of empty identifiers reach the threshold, never
\* before and never later: the last identifier probed is the limit-th empty
\* one after the last identifier that bore records (start+limit-1 if none
\* did).  With rows at 5, 6 and 9 only and the default limit, that is 21.
C1_StopsAtThreshold ==
    LET ids == ScanIds
        rs == PagesRows(ids)
    IN  /\ \A k \in 1..Len(ids) : ids[k] = start_id + k - 1
        /\ pc = "scanning" => TrailingEmpties(rs) < limit
        /\ ScanReturned =>
              LET L == Last(ids)
                  bearing == {ids[k] : k \in {n \in 1..Len(ids) : rs[n] # <<>>}}
                  lastBearing == IF bearing = {} THEN start_id - 1
                                 ELSE CHOOSE b \in bearing : \A c \in bearing : c <= b
              IN  /\ TrailingEmpties(rs) = limit
                  /\ \A k \in 1..(Len(ids) - 1) :
                         TrailingEmpties(SubSeq(rs, 1, k)) < limit
                  /\ L = lastBearing + limit
                  /\ (remote = Scripted /\ limit = DefaultLimit) => L = 21

C1_ReachMixed ==
    /\ ScanReturned
    /\ \E id \in start_id..Last(ScanIds) : HasRows(id)
    /\ \E k \in 1..Len(ScanIds) :
          ~HasRows(ScanIds[k]) /\ HasRows(ScanIds[k] + 1)

C1_Witness ==
    /\ ScanReturned
    /\ remote = Scripted
    /\ limit = DefaultLimit
    /\ start_id = 5
    /\ Last(ScanIds) = 21

\* C2: when the index page yields no candidate, the scan returns the empty
\* sequence at once and the index fetch is the only fetch of the run.
C2_NoCandidates ==
    (index.exc = "none" /\ index.ids = {} /\ pc # "idle") =>
        /\ pc \in {"returned", "warned"}
        /\ scraped = <<>>
        /\ fetches = <<Fetched("index", 0, "discover")>>

C2_Witness == index.exc = "none" /\ index.ids = {} /\ pc = "returned" /\ run = 2

\* C3: a transport error of any kind on a result-page probe counts as an
\* empty page: the run goes on, the accumulator is kept, and in SCANNING the
\* consecutive-empty counter grows by one and the next identifier is next.
C3_TransportErrorIsEmpty ==
    [][/\ (pc = "seeking" /\ AnswerAt(sorted(candidates)[seek_pos]).exc # "none")
             => pc' # "raised"
       /\ (pc = "scanning" /\ AnswerAt(rid).exc # "none")
             => /\ pc' # "raised"
                /\ empty_streak' = empty_streak + 1
                /\ all_rows' = all_rows
                /\ rid' = rid + 1]_vars

\* C4: every record the scan returns carries a tournament field beside the
\* other five columns, so the caller's column selection never fails.
C4_RecordsCarryTournament ==
    /\ pc = "returned" => \A i \in 1..Len(scraped) : Columns \subseteq DOMAIN scraped[i]
    /\ pc # "keyerror"

\* C8: a second run against the unchanged remote fetches the same URLs in the
\* same order and ends the same way with the same records.
C8_SecondRunIdentical ==
    run = 2 =>
        /\ pc # "idle" => IsPrefix(fetches, prev.fetches)
        /\ pc \in {"returned", "warned", "keyerror"} => scraped = prev.scraped
        /\ pc \in Terminal =>
              /\ fetches = prev.fetches
              /\ (pc = "raised") = (prev.pc = "raised")

C8_Witness ==
    /\ run = 2
    /\ pc = "keyerror"
    /\ Len(scraped) >= 2
    /\ \E k \in 1..Len(ScanIds) : ~HasRows(ScanIds[k])

\* C9: SEEKING_START probes the candidates in ascending order, skipping none,
\* and stops at the first whose page has records, which becomes the start;
\* when no candidate has records every candidate was probed once and the
\* start is the smallest candidate.
C9_SeekStart ==
    LET ids == SeekIds
        rs == PagesRows(ids)
        withRows == {c \in index.ids : HasRows(c)}
    IN  /\ \A k \in 1..Len(ids) : ids[k] \in index.ids
        /\ \A k \in 1..(Len(ids) - 1) : ids[k] < ids[k + 1] /\ rs[k] = <<>>
        /\ \A c \in index.ids :
              (ids # <<>> /\ c < Last(ids)) => \E k \in 1..Len(ids) : ids[k] = c
        /\ (pc = "scanning" \/ ScanIds # <<>>) =>
              IF withRows # {}
              THEN /\ start_id \in withRows
                   /\ \A c \in withRows : start_id <= c
                   /\ Last(ids) = start_id
              ELSE /\ start_id \in index.ids
                   /\ \A c \in index.ids : start_id <= c
                   /\ Len(ids) = Cardinality(index.ids)

C9_Witness ==
    /\ pc = "scanning"
    /\ Len(SeekIds) >= 2
    /\ HasRows(start_id)
    /\ \E c \in index.ids : c > start_id

C9_ReachFallback ==
    /\ pc = "scanning"
    /\ Len(SeekIds) >= 2
    /\ ~HasRows(start_id)

\* C10: all through SCANNING the accumulator is the records of the
\* identifiers probed in SCANNING, in ascending order and once each (what
\* SEEKING_START saw is not in it), and the counter is the number of
\* identifiers probed since the last one that bore records.
C10_Accumulator ==
    LET ids == ScanIds
        rs == PagesRows(ids)
    IN  (pc = "scanning" \/ ids # <<>>) =>
            /\ all_rows = Flatten(rs)
            /\ \A k \in 1..(Len(ids) - 1) : ids[k + 1] = ids[k] + 1
            /\ (pc = "scanning" \/ ScanReturned) =>
                  empty_streak = TrailingEmpties(rs)

C10_Witness ==
    /\ pc = "scanning"
    /\ Len(ScanIds) >= 3
    /\ HasRows(ScanIds[1])
    /\ Last(SeekIds) = ScanIds[1]
    /\ ~HasRows(ScanIds[2])
    /\ HasRows(ScanIds[3])
    /\ empty_streak = 0

\* ------------------------------------------ the page functions on their own
\* every text of at most n characters of alphabet
TextsUpTo(alphabet, n) == UNION {[1..k -> alphabet] : k \in 0..n}

\* every sequence of 1 to n members of S
SeqsUpTo(S, n) == UNION {[1..k -> S] : k \in 1..n}

TFAQualification == TFA \o <<" ">> \o Qualification

\* <h?>TFA Qualification</h?>, <h?><b>TFA</b> Qualification</h?>, <h?>Results</h?>
\* at three heading levels, and <h3>TFA</h3>
SampleHeadings ==
    {Heading(name, children) :
        name \in {"h2", "h3", "h4"},
        children \in {<<TFAQualification>>, <<TFA, <<" ">> \o Qualification>>,
                      <<<<"R", "e", "s", "u", "l", "t", "s">>>>}}
        \cup {Heading("h3", <<TFA>>)}

DataRow(first) ==
    <<T(first), T(<<"1">>), T(<<"A", "n", "n">>), T(<<"K", "H", "S">>),
      T(<<"L", "D">>)>>

\* a table the fallback accepts by its place and points header, one it accepts
\* by a three-cell header naming TFA, and one it refuses
SampleTables ==
    {Table(<<HeaderRow, DataRow(<<"9">>)>>),
     Table(<<<<H(<<"N", "a", "m", "e">>), H(<<"T", "F", "A", " ", "p", "t", "s">>),
              H(<<"S", "c", "h", "o", "o", "l">>)>>,
             DataRow(<<"4">>)>>),
     Table(<<<<H(<<"N", "a", "m", "e">>), H(<<"S", "c", "h", "o", "o", "l">>)>>,
             DataRow(<<"5">>)>>)}

\* a row of nth header cells, then the first ntd cells of a data row
MakeRow(nth, ntd, first) ==
    (IF nth = 1 THEN <<H(<<"#">>)>> ELSE <<>>) \o SubSeq(DataRow(first), 1, ntd)

SampleRows ==
    {MakeRow(nth, ntd, first) :
        nth \in {0, 1}, ntd \in {0, 3, 4, 5}, first \in {<<"7">>, <<"x">>}}

PointsAlphabet == {"7", "0", ".", "-", ",", " ", "x"}

TitleAlphabet == {"a", " ", "|"}

LocatorPages ==
    {[h2 |-> <<<<"L", "D">>>>, title |-> <<>>, body |-> body] :
        body \in SeqsUpTo(SampleHeadings \cup SampleTables, MaxNodes)}

NamePages ==
    {[h2 |-> h2, title |-> title, body |-> PageLD.body] :
        h2 \in {<<>>, <<<<>>>>, <<<<" ">>>>, <<<<" ", "L", "D">>>>},
        title \in {<<>>} \cup {<<t>> : t \in TextsUpTo(TitleAlphabet, MaxTextLen)}}

RowPages ==
    {[h2 |-> <<<<"L", "D">>>>, title |-> <<>>,
      body |-> <<Heading("h3", <<TFAQualification>>), Table(trs)>>] :
        trs \in {<<>>} \cup SeqsUpTo(SampleRows, MaxRows)}

PointsPages ==
    {[h2 |-> <<<<"L", "D">>>>, title |-> <<>>,
      body |-> <<Heading("h3", <<TFAQualification>>),
                 Table(<<HeaderRow, DataRow(first)>>)>>] :
        first \in TextsUpTo(PointsAlphabet, MaxTextLen)}

InitPage ==
    /\ \/ soup \in LocatorPages
       \/ soup \in NamePages
       \/ soup \in RowPages
       \/ soup \in PointsPages
    /\ page_pc = "input"
    /\ event_name = <<>>
    /\ tbl = 0
    /\ rows = <<>>
    /\ remote = Scripted
    /\ index = IndexServes({})
    /\ limit = DefaultLimit
    /\ IdleScan

\* page_has_tfa_points on the page once it is fetched (lines 104-109)
ParsePage ==
    /\ page_pc = "input"
    /\ event_name' = get_event_name(soup)
    /\ tbl' = find_tfa_table(soup)
    /\ rows' = page_has_tfa_points(Serves(soup)).rows
    /\ page_pc' = "parsed"
    /\ UNCHANGED <<soup, scanVars>>

NextPage == ParsePage

SpecPage == InitPage /\ [][NextPage]_vars

\* the whole text of a heading, inner markup included
TextOf(node) ==
    LET RECURSIVE cat(_)
        cat(parts) == IF parts = <<>> THEN <<>> ELSE Head(parts) \o cat(Tail(parts))
    IN  cat(node.children)

TablesAfter(i) == {j \in (i + 1)..Len(soup.body) : soup.body[j].kind = "table"}

\* C5: the event name of a page, and so the event of every record, is never
\* the empty string.
C5_EventNonEmpty ==
    page_pc = "parsed" =>
        /\ event_name # <<>>
        /\ \A k \in 1..Len(rows) : rows[k].event # <<>>

\* C7: a heading whose text contains "TFA Qualification", of any level and
\* with any inner markup, followed by exactly one table, makes find_tfa_table
\* return that table.
C7_HeadingTableWins ==
    page_pc = "parsed" =>
        \A i \in 1..Len(soup.body) :
            (/\ soup.body[i].kind = "heading"
             /\ Contains(TextOf(soup.body[i]), TFAQualification)
             /\ Cardinality(TablesAfter(i)) = 1)
                => tbl \in TablesAfter(i)

\* a token of [-+]?\d*\.?\d+: an optional sign, then digits with at most one
\* point among them, ending in a digit
IsNumericToken(t) ==
    /\ t # <<>>
    /\ LET u == IF t[1] \in {"-", "+"} THEN Tail(t) ELSE t
       IN  /\ u # <<>>
           /\ \A k \in 1..Len(u) : u[k] \in Digit \cup {"."}
           /\ Cardinality({k \in 1..Len(u) : u[k] = "."}) <= 1
           /\ u[Len(u)] \in Digit

\* the cell's text, trimmed and without thousands separators
PointsText(cell) == Remove(Strip(cell.text), ",")

TokenSpans(s) ==
    {span \in (1..Len(s)) \X (1..Len(s)) :
        span[1] <= span[2] /\ IsNumericToken(SubSeq(s, span[1], span[2]))}

\* the leftmost numeric token of s, the longest one that starts there
LeftmostToken(s) ==
    LET span == CHOOSE a \in TokenSpans(s) :
                    \A b \in TokenSpans(s) :
                        a[1] < b[1] \/ (a[1] = b[1] /\ a[2] >= b[2])
    IN  SubSeq(s, span[1], span[2])

Tds(tr) == SelectSeq(tr, LAMBDA c : c.tag = "td")

\* C6: a row after the header row gives a record exactly when it has at
\* least 4 data cells and its first cell holds a numeric token; the records
\* come in row order, each with the parsed number as points and the page's
\* event name as event.
C6_RowsParsed ==
    (page_pc = "parsed" /\ tbl # 0) =>
        LET trs == soup.body[tbl].rows
            good == {i \in 2..Len(trs) :
                        /\ Len(Tds(trs[i])) >= 4
                        /\ TokenSpans(PointsText(Tds(trs[i])[1])) # {}}
            order == sorted_set(good)
        IN  /\ Len(rows) = Cardinality(good)
            /\ \A k \in 1..Len(rows) :
                  LET tds == Tds(trs[order[k]])
                  IN  /\ rows[k].points = float(LeftmostToken(PointsText(tds[1])))
                      /\ rows[k].event = event_name
                      /\ rows[k].entry = Strip(tds[3].text)
                      /\ rows[k].school = Strip(tds[4].text)
                      /\ rows[k].qualifying_event =
                            IF Len(tds) >= 5 THEN Strip(tds[5].text) ELSE <<>>

C6_Witness ==
    /\ page_pc = "parsed"
    /\ tbl # 0
    /\ Len(soup.body[tbl].rows) = 3
    /\ Len(Tds(soup.body[tbl].rows[1])) >= 4
    /\ Len(Tds(soup.body[tbl].rows[2])) = 3
    /\ Len(Tds(soup.body[tbl].rows[3])) = 4
    /\ Len(rows) = 1

C6_ReachToken ==
    /\ page_pc = "parsed"
    /\ soup \in PointsPages
    /\ Len(rows) = 1
    /\ rows[1].points = [mant |-> -7, exp |-> 1]

====
